---- MODULE Spec2Model ----
(***************************************************************************)
(* Model of scripts/update-ioc-database.js: the IOC database updater.      *)
(* Text is modelled as a sequence of one-character strings, so that the    *)
(* tokenizer, trimming and splitting are computed character by character.  *)
(***************************************************************************)
EXTENDS Integers, Sequences, FiniteSets, TLC

\* ------------------------------------------------------------------ text

\* Characters String.prototype.trim() removes (the ones the model uses).
IsSpace(c) == c \in {" ", "\n", "\t", "\r"}

RECURSIVE TrimStart(_)
TrimStart(s) ==
    IF s = <<>> THEN <<>>
    ELSE IF IsSpace(Head(s)) THEN TrimStart(Tail(s)) ELSE s

RECURSIVE TrimEnd(_)
TrimEnd(s) ==
    IF s = <<>> THEN <<>>
    ELSE IF IsSpace(s[Len(s)]) THEN TrimEnd(SubSeq(s, 1, Len(s) - 1)) ELSE s

\* String.prototype.trim
Trim(s) == TrimEnd(TrimStart(s))

\* String.prototype.split(sep) for a one-character separator: the pieces
\* between separators, empty pieces kept; "" splits to [""].
RECURSIVE SplitFrom(_, _, _, _)
SplitFrom(s, sep, i, cur) ==
    IF i > Len(s) THEN <<cur>>
    ELSE IF s[i] = sep THEN <<cur>> \o SplitFrom(s, sep, i + 1, <<>>)
    ELSE SplitFrom(s, sep, i + 1, Append(cur, s[i]))

Split(s, sep) == SplitFrom(s, sep, 1, <<>>)

\* Array.prototype.map(x => x.trim())
MapTrim(xs) == [i \in 1..Len(xs) |-> Trim(xs[i])]

\* Array.prototype.filter(x => x.length > 0)
RECURSIVE FilterNonEmpty(_)
FilterNonEmpty(xs) ==
    IF xs = <<>> THEN <<>>
    ELSE IF Len(Head(xs)) > 0 THEN <<Head(xs)>> \o FilterNonEmpty(Tail(xs))
    ELSE FilterNonEmpty(Tail(xs))

\* x.split(',').map(v => v.trim()).filter(v => v.length > 0)
SplitList(x) == FilterNonEmpty(MapTrim(Split(x, ",")))

\* -------------------------------------------------------------- the parser

\* parseCSVLine: the scan from position i with the fields pushed so far, the
\* field being read and the quote mode.
RECURSIVE ScanLine(_, _, _, _, _)
ScanLine(line, i, result, current, inQuotes) ==
    IF i > Len(line) THEN Append(result, Trim(current))
    ELSE IF line[i] = "\"" THEN ScanLine(line, i + 1, result, current, ~inQuotes)
    ELSE IF line[i] = "," /\ ~inQuotes
         THEN ScanLine(line, i + 1, Append(result, Trim(current)), <<>>, inQuotes)
    ELSE ScanLine(line, i + 1, result, Append(current, line[i]), inQuotes)

\* A tokenizer that is not quote-aware: it splits at every comma.
SplitEveryComma(line) == MapTrim(Split(line, ","))

parseCSVLine(line) == ScanLine(line, 1, <<>>, <<>>, FALSE)

\* The guard of line 83: a field that is undefined (not there) or "" is falsy.
FieldMissing(fields, k) == Len(fields) < k \/ fields[k] = <<>>

RowSkipped(fields) == FieldMissing(fields, 1) \/ FieldMissing(fields, 2)

\* The record pushed for one row that passed the guard.
RowRecord(fields) ==
    [name             |-> fields[1],
     severity         |-> "critical",
     affectedVersions |-> SplitList(fields[2]),
     sources          |-> IF FieldMissing(fields, 3) THEN <<>>
                          ELSE SplitList(fields[3])]

\* The body of the loop over lines[i], i >= 1 (0-based), of parseConsolidatedCSV.
RECURSIVE ParseLines(_, _)
ParseLines(lines, i) ==
    IF i > Len(lines) THEN <<>>
    ELSE LET line   == Trim(lines[i])
             fields == parseCSVLine(line)
         IN  IF line = <<>> THEN ParseLines(lines, i + 1)
             ELSE IF RowSkipped(fields) THEN ParseLines(lines, i + 1)
             ELSE <<RowRecord(fields)>> \o ParseLines(lines, i + 1)

parseConsolidatedCSV(csvContent) == ParseLines(Split(Trim(csvContent), "\n"), 2)

\* ----------------------------------------------------------- JSON values

\* A parsed JSON value: its JavaScript type and the payload of that type
\* (b for a boolean, n for a number, s for a string, f for the entries of an
\* object or array as <<key, text>> pairs). Unused payloads are zero.
Js(t, b, n, s, f) == [t |-> t, b |-> b, n |-> n, s |-> s, f |-> f]
JUndef   == Js("undefined", FALSE, 0, "", <<>>)
JNull    == Js("null", FALSE, 0, "", <<>>)
JBool(b) == Js("boolean", b, 0, "", <<>>)
JNum(n)  == Js("number", FALSE, n, "", <<>>)
JStr(s)  == Js("string", FALSE, 0, s, <<>>)
JObj(f)  == Js("object", FALSE, 0, "", f)
JArr(f)  == Js("array", FALSE, 0, "", f)

\* ToBoolean, as the || operator applies it.
Truthy(j) ==
    CASE j.t = "undefined" -> FALSE
      [] j.t = "null"      -> FALSE
      [] j.t = "boolean"   -> j.b
      [] j.t = "number"    -> j.n # 0
      [] j.t = "string"    -> j.s # ""
      [] OTHER             -> TRUE

\* a || b
Or(a, b) == IF Truthy(a) THEN a ELSE b

\* The packages property of a previous database: its type and, for an array,
\* its entries. An entry: its type and its affectedVersions property (type
\* and, for an array, the selectors).
Pk(t, items) == [t |-> t, items |-> items]
Entry(t, avt, av) == [t |-> t, av |-> [t |-> avt, items |-> av]]

\* What JSON.parse returned: the value's type and the five properties the
\* updater reads (undefined on a value that is not an object).
DbValue(t, version, attackInfo, indicators, acknowledgements, pkgs) ==
    [t |-> t, version |-> version, attackInfo |-> attackInfo,
     indicators |-> indicators, acknowledgements |-> acknowledgements,
     packages |-> pkgs]

NullDb == DbValue("null", JUndef, JUndef, JUndef, JUndef, Pk("undefined", <<>>))

\* existing?.prop : undefined when existing is null, else the property.
OptVersion(e)          == IF e.t = "null" THEN JUndef ELSE e.version
OptAttackInfo(e)       == IF e.t = "null" THEN JUndef ELSE e.attackInfo
OptIndicators(e)       == IF e.t = "null" THEN JUndef ELSE e.indicators
OptAcknowledgements(e) == IF e.t = "null" THEN JUndef ELSE e.acknowledgements
OptPackages(e)         == IF e.t = "null" THEN Pk("undefined", <<>>) ELSE e.packages

\* ToBoolean of a packages property (arrays and objects are truthy).
PkTruthy(p) == p.t \in {"array", "object"}

\* ------------------------------------------------------------ constants

CONSOLIDATED_IOC_URL == "https://raw.githubusercontent.com/DataDog/indicators-of-compromise/main/shai-hulud-2.0/consolidated_iocs.csv"

DefaultVersion == JStr("2.1.0")

DefaultAttackInfo ==
    JObj(<< <<"name", "Shai-Hulud 2.0">>,
            <<"alias", "The Second Coming">>,
            <<"firstDetected", "2025-11-24T03:16:00Z">>,
            <<"description", "Self-replicating npm worm targeting credential theft and supply chain compromise.">> >>)

DefaultIndicators == JObj(<<>>)

DefaultAcknowledgements == JArr(<<>>)

DataSourceUrl == "https://github.com/DataDog/indicators-of-compromise/tree/main/shai-hulud-2.0"

DataSourceDescription == "Consolidated IOCs from multiple security vendors"

\* ------------------------------------------------------- source counting

\* sourceCounts is an object; the model keeps its properties in creation
\* order as [source, count] records.
\* sourceCounts[source] = (sourceCounts[source] || 0) + 1
CountSource(sc, source) ==
    IF \E i \in 1..Len(sc) : sc[i].source = source
    THEN [i \in 1..Len(sc) |->
            IF sc[i].source = source
            THEN [source |-> source, count |-> sc[i].count + 1]
            ELSE sc[i]]
    ELSE Append(sc, [source |-> source, count |-> 1])

\* pkg.sources.forEach(...)
RECURSIVE CountSources(_, _)
CountSources(sc, sources) ==
    IF sources = <<>> THEN sc
    ELSE CountSources(CountSource(sc, Head(sources)), Tail(sources))

\* packages.forEach(...)
RECURSIVE CountPackages(_, _)
CountPackages(sc, pkgs) ==
    IF pkgs = <<>> THEN sc
    ELSE CountPackages(CountSources(sc, Head(pkgs).sources), Tail(pkgs))

Digits == <<"0", "1", "2", "3", "4", "5", "6", "7", "8", "9">>

IsDigit(c) == \E d \in 1..Len(Digits) : Digits[d] = c

DigitVal(c) == (CHOOSE d \in 1..Len(Digits) : Digits[d] = c) - 1

RECURSIVE NumVal(_)
NumVal(k) ==
    IF k = <<>> THEN 0
    ELSE NumVal(SubSeq(k, 1, Len(k) - 1)) * 10 + DigitVal(k[Len(k)])

\* A property key that is a canonical array index: own-property enumeration
\* lists these first, in ascending numeric order. (Keys of up to nine digits;
\* the index range ends at 2^32 - 2, among the ten-digit keys.)
IsIndexKey(k) ==
    /\ Len(k) \in 1..9
    /\ \A i \in 1..Len(k) : IsDigit(k[i])
    /\ Len(k) = 1 \/ k[1] # "0"

\* The entries of `es` in ascending order of the numeric value of their keys.
RECURSIVE SortByIndex(_)
SortByIndex(es) ==
    IF es = <<>> THEN <<>>
    ELSE LET m == CHOOSE i \in 1..Len(es) :
                     \A j \in 1..Len(es) : NumVal(es[i].source) <= NumVal(es[j].source)
         IN  <<es[m]>> \o SortByIndex(SubSeq(es, 1, m - 1) \o SubSeq(es, m + 1, Len(es)))

IsIndexEntry(e) == IsIndexKey(e.source)

IsNamedEntry(e) == ~IsIndexKey(e.source)

\* Object.entries(sourceCounts): index keys ascending, then the other keys in
\* creation order.
ObjectEntries(sc) ==
    SortByIndex(SelectSeq(sc, IsIndexEntry)) \o SelectSeq(sc, IsNamedEntry)

\* One step of a stable sort with the comparator (a, b) => b[1] - a[1]: e
\* goes behind every entry whose count is not smaller.
InsertByCount(sorted, e) ==
    LET k == Cardinality({i \in 1..Len(sorted) : sorted[i].count >= e.count})
    IN  SubSeq(sorted, 1, k) \o <<e>> \o SubSeq(sorted, k + 1, Len(sorted))

RECURSIVE SortByCount(_, _)
SortByCount(sorted, es) ==
    IF es = <<>> THEN sorted
    ELSE SortByCount(InsertByCount(sorted, Head(es)), Tail(es))

\* The "Sources aggregated" lines, in the order printed.
SourceReport(sc) == SortByCount(<<>>, ObjectEntries(sc))

\* Characters in ascending order of their UTF-16 code unit.
CodeOrder ==
    <<"\t", "\n", "\r", " ", "\"", "*", ",", "-", ".",
      "0", "1", "2", "3", "4", "5", "6", "7", "8", "9",
      "a", "b", "c", "d", "e", "f", "g", "h", "i", "j", "k", "l", "m",
      "n", "o", "p", "q", "r", "s", "t", "u", "v", "w", "x", "y", "z">>

CharRank(c) == CHOOSE r \in 1..Len(CodeOrder) : CodeOrder[r] = c

\* a < b as the default sort compares strings: by code units.
RECURSIVE StrLess(_, _)
StrLess(a, b) ==
    IF b = <<>> THEN FALSE
    ELSE IF a = <<>> THEN TRUE
    ELSE IF Head(a) = Head(b) THEN StrLess(Tail(a), Tail(b))
    ELSE CharRank(Head(a)) < CharRank(Head(b))

InsertKey(sorted, k) ==
    LET n == Cardinality({i \in 1..Len(sorted) : StrLess(sorted[i], k)})
    IN  SubSeq(sorted, 1, n) \o <<k>> \o SubSeq(sorted, n + 1, Len(sorted))

RECURSIVE SortKeys(_, _)
SortKeys(sorted, ks) ==
    IF ks = <<>> THEN sorted
    ELSE SortKeys(InsertKey(sorted, Head(ks)), Tail(ks))

\* Object.keys(sourceCounts).sort()
SortedSources(sc) ==
    LET es == ObjectEntries(sc)
    IN  SortKeys(<<>>, [i \in 1..Len(es) |-> es[i].source])

\* --------------------------------------------------------------- merger

\* A merger that keeps only the first entry of each package name.
RECURSIVE DedupByName(_, _)
DedupByName(seen, pkgs) ==
    IF pkgs = <<>> THEN <<>>
    ELSE IF Head(pkgs).name \in seen THEN DedupByName(seen, Tail(pkgs))
    ELSE <<Head(pkgs)>> \o DedupByName(seen \cup {Head(pkgs).name}, Tail(pkgs))

\* pkg => ({name, severity, affectedVersions})
ReducePackage(pkg) ==
    [name |-> pkg.name, severity |-> pkg.severity,
     affectedVersions |-> pkg.affectedVersions]

MapPackagesDedup(pkgs) ==
    LET kept == DedupByName({}, pkgs)
    IN  [i \in 1..Len(kept) |-> ReducePackage(kept[i])]

MapPackages(pkgs) == [i \in 1..Len(pkgs) |-> ReducePackage(pkgs[i])]

MergeVersion(e) == Or(OptVersion(e), DefaultVersion)

MergeAttackInfo(e) == Or(OptAttackInfo(e), DefaultAttackInfo)

MergeIndicators(e) == Or(OptIndicators(e), DefaultIndicators)

MergeAcknowledgements(e) == Or(OptAcknowledgements(e), DefaultAcknowledgements)

\* The object literal `database`.
BuildDatabase(e, pkgs, sc, now) ==
    [version          |-> MergeVersion(e),
     lastUpdated      |-> now,
     dataSource       |-> [url         |-> DataSourceUrl,
                           description |-> DataSourceDescription,
                           sources     |-> SortedSources(sc),
                           fetchedAt   |-> now],
     attackInfo       |-> MergeAttackInfo(e),
     indicators       |-> MergeIndicators(e),
     acknowledgements |-> MergeAcknowledgements(e),
     packages         |-> MapPackages(pkgs)]

\* The value `database` has before it is built.
NoDatabase == BuildDatabase(NullDb, <<>>, <<>>, "")

\* ------------------------------------------------------- drift reporter

\* existing.packages.length : Len of an array, undefined otherwise.
\* The line printed for diff = newCount - oldCount (NaN when the length is
\* undefined, which is neither > 0 nor < 0).
DiffLine(p, newCount) ==
    IF p.t # "array" THEN "unchanged"
    ELSE IF newCount - Len(p.items) > 0 THEN "added"
    ELSE IF newCount - Len(p.items) < 0 THEN "removed"
    ELSE "unchanged"

\* p.affectedVersions?.length === 1 && p.affectedVersions[0] === '*'
IsWildcard(entry) ==
    /\ entry.av.t = "array"
    /\ Len(entry.av.items) = 1
    /\ entry.av.items[1] = "*"

\* existing.packages.filter(...) throws a TypeError when packages has no
\* filter method (it is not an array) or when the callback reads a property
\* of a null entry.
CompareThrows(e) ==
    LET p == OptPackages(e)
    IN  /\ PkTruthy(p)
        /\ \/ p.t # "array"
           \/ \E i \in 1..Len(p.items) : p.items[i].t = "null"

OldWildcards(p) == Cardinality({i \in 1..Len(p.items) : IsWildcard(p.items[i])})

\* ---------------------------------------------------------------- state

VARIABLES
    pc,            \* where the run is: fetch, parse, load, count, build, write,
                   \* summary, compare, resolved, rejected, exit
    url,           \* the URL of the https.get in flight
    requested,     \* every URL https.get was called with, in order
    responses,     \* every response received, in order
    csvContent,    \* the body fetchUrl resolved with
    packages,      \* parseConsolidatedCSV's result
    file,          \* OUTPUT_FILE as it was before the run
    existing,      \* loadExistingDatabase's result
    sourceCounts,  \* the per-source counts
    report,        \* the "Sources aggregated" lines printed
    database,      \* the database built
    written,       \* every content writeFileSync has written, in order
    drift,         \* what the comparison with the previous database printed
    out,           \* the milestone lines printed
    err,           \* the error updateDatabase rejected with
    exitCode       \* process.exit's argument, -1 while running

vars == <<pc, url, requested, responses, csvContent, packages, file, existing,
          sourceCounts, report, database, written, drift, out, err, exitCode>>

\* --------------------------------------------------------------- inputs

\* Redirect chains longer than this are not explored.
MaxHops == 2

\* Free feed texts are explored up to this many characters after the header.
MaxLen == 5

\* Quoted version lists are explored up to this many selectors.
MaxVersions == 2

NoLocation == "(no Location header)"

RedirectTargets == {"https://mirror-a.example/iocs.csv", "https://mirror-b.example/iocs.csv"}

RedirectStatuses == {301, 302}

ErrorStatuses == {404, 500}

Header == <<"n", ",", "v", ",", "s">>

NL == <<"\n">>

RECURSIVE Join(_, _)
Join(xs, sep) ==
    IF xs = <<>> THEN <<>>
    ELSE IF Len(xs) = 1 THEN xs[1]
    ELSE xs[1] \o sep \o Join(Tail(xs), sep)

FeedOf(rows) == Join(<<Header>> \o rows, NL)

RowPlain     == <<"a", ",", "1", ",", "x">>
RowPlain2    == <<"a", ",", "2", ",", "x">>
RowOther     == <<"b", ",", "1", ",", "y">>
RowQuoted    == <<"b", ",", "\"", "1", ",", "2", "\"", ",", "y">>
RowDupSource == <<"c", ",", "1", ",", "\"", "x", ",", "x", "\"">>
RowTwoSource == <<"c", ",", "1", ",", "\"", "y", ",", " ", "x", "\"">>
RowNumSource == <<"c", ",", "1", ",", "\"", "2", ",", "1", "\"">>
RowNoName    == <<",", "1", ",", "x">>
RowNoVersion == <<"b", ",", ",", "x">>
RowCommas    == <<"c", ",", "\"", ",", "\"", ",", "x">>
RowWildcard  == <<"a", ",", "*">>
RowBlank     == <<" ", " ">>

\* The bodies the upstream serves in the explored runs.
Feeds ==
    { <<>>,
      FeedOf(<<>>),
      FeedOf(<<RowPlain>>),
      FeedOf(<<RowPlain, RowQuoted>>) \o NL,
      FeedOf(<<RowPlain, RowPlain>>),
      FeedOf(<<RowOther, RowPlain, RowPlain2>>),
      FeedOf(<<RowNoName, RowQuoted, RowBlank, RowNoVersion, RowWildcard>>),
      FeedOf(<<RowDupSource, RowOther>>),
      FeedOf(<<RowTwoSource, RowPlain>>),
      FeedOf(<<RowNumSource>>),
      FeedOf(<<RowCommas>>),
      Join(<<Header, RowPlain, RowOther>>, <<"\r", "\n">>) }

CustomAttackInfo ==
    JObj(<< <<"name", "Shai-Hulud 2.0">>, <<"alias", "Sandworm Returns">> >>)

CustomIndicators == JObj(<< <<"maliciousFiles", "setup_bun.js">> >>)

CustomAcknowledgements == JObj(<< <<"securityResearchers", "Datadog">> >>)

AttackInfoValues == {JUndef, JNull, CustomAttackInfo}

IndicatorsValues == {JUndef, JNum(0), CustomIndicators}

AcknowledgementsValues == {JUndef, JStr(""), JBool(FALSE), CustomAcknowledgements, JArr(<<>>)}

VersionValues == {JUndef, JStr(""), JStr("2.0.0")}

TypicalPackages ==
    Pk("array", << Entry("object", "array", <<"*">>),
                   Entry("object", "array", <<"1.0.0">>) >>)

PackagesValues ==
    { Pk("undefined", <<>>),
      Pk("null", <<>>),
      Pk("array", <<>>),
      TypicalPackages,
      Pk("array", << Entry("object", "array", <<"*">>),
                     Entry("object", "undefined", <<>>),
                     Entry("object", "array", <<"*", "1.0.0">>),
                     Entry("object", "array", <<"*">>) >>),
      Pk("array", << Entry("object", "array", <<"*">>), Entry("null", "undefined", <<>>) >>),
      Pk("object", <<>>) }

\* The parsed content of the previous file, one property varied at a time.
PrevValues ==
    { DbValue("object", JStr("2.0.0"), a, i, k, TypicalPackages) :
        a \in AttackInfoValues, i \in IndicatorsValues, k \in AcknowledgementsValues }
    \cup { DbValue("object", v, CustomAttackInfo, CustomIndicators,
                   CustomAcknowledgements, p) :
             v \in VersionValues, p \in PackagesValues }
    \cup { NullDb,
           DbValue("number", JUndef, JUndef, JUndef, JUndef, Pk("undefined", <<>>)) }

\* OUTPUT_FILE before the run: not there, not readable, not JSON, or JSON.
PrevFiles ==
    { [state |-> st, value |-> NullDb] : st \in {"missing", "unreadable", "garbage"} }
    \cup { [state |-> "json", value |-> v] : v \in PrevValues }

\* new Date().toISOString()
Times == {"2025-12-01T00:00:00.000Z"}

NoError == [kind |-> "none", status |-> 0]

NoDrift == [line |-> "none", wildcards |-> -1]

Response(status, location, body, ended) ==
    [status |-> status, location |-> location, body |-> body, ended |-> ended]

\* ----------------------------------------------------------------- Init

Init ==
    /\ pc = "fetch"
    /\ url = CONSOLIDATED_IOC_URL
    /\ requested = <<CONSOLIDATED_IOC_URL>>
    /\ responses = <<>>
    /\ csvContent = <<>>
    /\ packages = <<>>
    /\ file \in PrevFiles
    /\ existing = NullDb
    /\ sourceCounts = <<>>
    /\ report = <<>>
    /\ database = NoDatabase
    /\ written = <<>>
    /\ drift = NoDrift
    /\ out = <<>>
    /\ err = NoError
    /\ exitCode = -1

\* ------------------------------------------------------------- fetchUrl

Refetches == Len(requested) - 1

\* The response is a 200 and its body arrives whole: resolve(data).
FetchBody(body) ==
    /\ pc = "fetch"
    /\ url # NoLocation
    /\ responses' = Append(responses, Response(200, NoLocation, body, TRUE))
    /\ csvContent' = body
    /\ pc' = "parse"
    /\ UNCHANGED <<url, requested, packages, file, existing, sourceCounts, report,
                   database, written, drift, out, err, exitCode>>

\* A redirect handler that asks the same URL again instead of the Location.
FetchRedirectSameUrl(status, location) ==
    /\ pc = "fetch"
    /\ url # NoLocation
    /\ Refetches < MaxHops
    /\ responses' = Append(responses, Response(status, location, <<>>, TRUE))
    /\ requested' = Append(requested, url)
    /\ UNCHANGED <<pc, url, csvContent, packages, file, existing, sourceCounts, report,
                   database, written, drift, out, err, exitCode>>

\* The response is a 301 or 302: fetchUrl(res.headers.location), whose
\* result settles this fetch. Without a Location header the nested call is
\* https.get(undefined), which can only fail (FetchConnError).
FetchRedirect(status, location) ==
    /\ pc = "fetch"
    /\ url # NoLocation
    /\ Refetches < MaxHops
    /\ responses' = Append(responses, Response(status, location, <<>>, TRUE))
    /\ url' = location
    /\ requested' = Append(requested, location)
    /\ UNCHANGED <<pc, csvContent, packages, file, existing, sourceCounts, report,
                   database, written, drift, out, err, exitCode>>

\* A fetch without the status check: the error page is taken for the feed.
FetchStatusIgnored(status) ==
    /\ pc = "fetch"
    /\ url # NoLocation
    /\ responses' = Append(responses, Response(status, NoLocation, <<>>, TRUE))
    /\ csvContent' = <<>>
    /\ pc' = "parse"
    /\ UNCHANGED <<url, requested, packages, file, existing, sourceCounts, report,
                   database, written, drift, out, err, exitCode>>

\* Any other status: reject(new Error(`HTTP ${res.statusCode}: ...`)).
FetchStatusError(status) ==
    /\ pc = "fetch"
    /\ url # NoLocation
    /\ responses' = Append(responses, Response(status, NoLocation, <<>>, TRUE))
    /\ err' = [kind |-> "http", status |-> status]
    /\ pc' = "rejected"
    /\ UNCHANGED <<url, requested, csvContent, packages, file, existing, sourceCounts,
                   report, database, written, drift, out, exitCode>>

\* The request's 'error' event (or https.get throwing): reject(cause).
FetchConnError ==
    /\ pc = "fetch"
    /\ err' = [kind |-> "cause", status |-> 0]
    /\ pc' = "rejected"
    /\ UNCHANGED <<url, requested, responses, csvContent, packages, file, existing,
                   sourceCounts, report, database, written, drift, out, exitCode>>

\* A 200 whose body stream fails before 'end': res.on('error', reject).
FetchStreamError ==
    /\ pc = "fetch"
    /\ url # NoLocation
    /\ responses' = Append(responses, Response(200, NoLocation, <<>>, FALSE))
    /\ err' = [kind |-> "cause", status |-> 0]
    /\ pc' = "rejected"
    /\ UNCHANGED <<url, requested, csvContent, packages, file, existing, sourceCounts,
                   report, database, written, drift, out, exitCode>>

\* ------------------------------------------------------- updateDatabase

\* const packages = parseConsolidatedCSV(csvContent)
Parse ==
    /\ pc = "parse"
    /\ packages' = parseConsolidatedCSV(csvContent)
    /\ pc' = "load"
    /\ UNCHANGED <<url, requested, responses, csvContent, file, existing, sourceCounts,
                   report, database, written, drift, out, err, exitCode>>

\* readFileSync and JSON.parse inside try/catch: the parsed value, or null
\* after a warning.
loadExistingDatabase(f) == IF f.state = "json" THEN f.value ELSE NullDb

LoadWarning(f) == IF f.state = "json" THEN <<>> ELSE <<"Warning: Could not load existing database">>

\* A load without the try/catch: a file that cannot be read or parsed
\* rejects the run.
LoadNoCatch ==
    /\ pc = "load"
    /\ IF file.state = "json"
       THEN /\ existing' = file.value
            /\ err' = err
            /\ pc' = "count"
       ELSE /\ existing' = existing
            /\ err' = [kind |-> "load", status |-> 0]
            /\ pc' = "rejected"
    /\ UNCHANGED <<url, requested, responses, csvContent, packages, file, sourceCounts,
                   report, database, written, drift, out, exitCode>>

Load ==
    /\ pc = "load"
    /\ existing' = loadExistingDatabase(file)
    /\ out' = out \o LoadWarning(file)
    /\ pc' = "count"
    /\ UNCHANGED <<url, requested, responses, csvContent, packages, file, sourceCounts,
                   report, database, written, drift, err, exitCode>>

\* The counting loop and the "Sources aggregated" lines.
Count ==
    /\ pc = "count"
    /\ sourceCounts' = CountPackages(<<>>, packages)
    /\ report' = SourceReport(sourceCounts')
    /\ pc' = "build"
    /\ UNCHANGED <<url, requested, responses, csvContent, packages, file, existing,
                   database, written, drift, out, err, exitCode>>

Build(now) ==
    /\ pc = "build"
    /\ database' = BuildDatabase(existing, packages, sourceCounts, now)
    /\ pc' = "write"
    /\ UNCHANGED <<url, requested, responses, csvContent, packages, file, existing,
                   sourceCounts, report, written, drift, out, err, exitCode>>

\* fs.writeFileSync(OUTPUT_FILE, JSON.stringify(database, null, 2) + '\n')
WriteOk ==
    /\ pc = "write"
    /\ written' = Append(written, database)
    /\ pc' = "summary"
    /\ UNCHANGED <<url, requested, responses, csvContent, packages, file, existing,
                   sourceCounts, report, database, drift, out, err, exitCode>>

\* A write whose failure is swallowed: the run goes on to the summary.
WriteFailSwallowed ==
    /\ pc = "write"
    /\ pc' = "summary"
    /\ UNCHANGED <<url, requested, responses, csvContent, packages, file, existing,
                   sourceCounts, report, database, written, drift, out, err, exitCode>>

\* writeFileSync throws: the async function rejects.
WriteFail ==
    /\ pc = "write"
    /\ err' = [kind |-> "write", status |-> 0]
    /\ pc' = "rejected"
    /\ UNCHANGED <<url, requested, responses, csvContent, packages, file, existing,
                   sourceCounts, report, database, written, drift, out, exitCode>>

Summary ==
    /\ pc = "summary"
    /\ out' = Append(out, "Database updated successfully!")
    /\ pc' = "compare"
    /\ UNCHANGED <<url, requested, responses, csvContent, packages, file, existing,
                   sourceCounts, report, database, written, drift, err, exitCode>>

\* What lines 191-209 print when nothing throws.
DriftOf(e, newCount) ==
    IF PkTruthy(OptPackages(e))
    THEN [line |-> DiffLine(OptPackages(e), newCount),
          wildcards |-> OldWildcards(OptPackages(e))]
    ELSE NoDrift

\* if (existing?.packages) { ... } return { success: true, ... }
Compare ==
    /\ pc = "compare"
    /\ IF CompareThrows(existing)
       THEN /\ err' = [kind |-> "type", status |-> 0]
            /\ drift' = [line |-> DiffLine(OptPackages(existing), Len(packages)),
                         wildcards |-> -1]
            /\ pc' = "rejected"
       ELSE /\ err' = err
            /\ drift' = DriftOf(existing, Len(packages))
            /\ pc' = "resolved"
    /\ UNCHANGED <<url, requested, responses, csvContent, packages, file, existing,
                   sourceCounts, report, database, written, out, exitCode>>

\* ----------------------------------------------------------------- main

\* .then(result => { console.log('\nDone!'); process.exit(0) })
ExitOk ==
    /\ pc = "resolved"
    /\ out' = Append(out, "Done!")
    /\ exitCode' = 0
    /\ pc' = "exit"
    /\ UNCHANGED <<url, requested, responses, csvContent, packages, file, existing,
                   sourceCounts, report, database, written, drift, err>>

\* .catch(err => { console.error('\nError:', err.message); process.exit(1) })
ExitError ==
    /\ pc = "rejected"
    /\ out' = Append(out, "Error:")
    /\ exitCode' = 1
    /\ pc' = "exit"
    /\ UNCHANGED <<url, requested, responses, csvContent, packages, file, existing,
                   sourceCounts, report, database, written, drift, err>>

Next ==
    \/ \E body \in Feeds : FetchBody(body)
    \/ \E status \in RedirectStatuses, location \in RedirectTargets \cup {NoLocation} :
          FetchRedirect(status, location)
    \/ \E status \in ErrorStatuses : FetchStatusError(status)
    \/ FetchConnError
    \/ FetchStreamError
    \/ Parse
    \/ Load
    \/ Count
    \/ \E now \in Times : Build(now)
    \/ WriteOk
    \/ WriteFail
    \/ Summary
    \/ Compare
    \/ ExitOk
    \/ ExitError

Spec == Init /\ [][Next]_vars

\* ------------------------------------------------- the parser on its own

\* The characters free feed texts are made of.
TextChars == {"a", " ", ",", "\"", "\n"}

ShortTexts == UNION {[1..n -> TextChars] : n \in 0..MaxLen}

\* Tokens without quotes, commas, line breaks or surrounding whitespace.
Tokens == { <<"p", "k", "g", "-", "a">>, <<"1", ".", "0">>, <<"x", " ", "y">> }

VersionLists == UNION {[1..n -> Tokens] : n \in 1..MaxVersions}

\* The data row  name,"v1,...,vk",s
QuotedRow(name, versionList, source) ==
    name \o <<",", "\"">> \o Join(versionList, <<",">>) \o <<"\"", ",">> \o source

QuotedRowFeeds ==
    { FeedOf(<<QuotedRow(name, vl, src)>>) :
        name \in Tokens, vl \in VersionLists, src \in Tokens }

\* pkg-a,"1.0.0,1.0.1",vendorX
ExampleName == <<"p", "k", "g", "-", "a">>
ExampleVersions == << <<"1", ".", "0", ".", "0">>, <<"1", ".", "0", ".", "1">> >>
ExampleSource == <<"v", "e", "n", "d", "o", "r", "X">>
ExampleFeed == FeedOf(<<QuotedRow(ExampleName, ExampleVersions, ExampleSource)>>)

ParseInputs ==
    {Header \o NL \o t : t \in ShortTexts} \cup QuotedRowFeeds \cup {ExampleFeed}

\* The run at the point where fetchUrl has resolved with some feed text.
InitParse ==
    /\ pc = "parse"
    /\ url = CONSOLIDATED_IOC_URL
    /\ requested = <<CONSOLIDATED_IOC_URL>>
    /\ csvContent \in ParseInputs
    /\ responses = <<Response(200, NoLocation, csvContent, TRUE)>>
    /\ packages = <<>>
    /\ file = [state |-> "missing", value |-> NullDb]
    /\ existing = NullDb
    /\ sourceCounts = <<>>
    /\ report = <<>>
    /\ database = NoDatabase
    /\ written = <<>>
    /\ drift = NoDrift
    /\ out = <<>>
    /\ err = NoError
    /\ exitCode = -1

NextParse == Parse

SpecParse == InitParse /\ [][NextParse]_vars

\* =============================================================== claims

Built == database.lastUpdated # ""

Last(xs) == xs[Len(xs)]

Range(xs) == {xs[i] : i \in 1..Len(xs)}

\* ---- C1
\* C1: every record parseConsolidatedCSV returns has a non-empty name and a
\* non-empty affectedVersions sequence, whatever the feed text.
C1_RecordsComplete ==
    pc # "parse" =>
        \A i \in 1..Len(packages) :
            /\ packages[i].name # <<>>
            /\ packages[i].affectedVersions # <<>>

\* ---- C6
NotQuote(c) == c # "\""

QuotesBefore(line, i) == Cardinality({j \in 1..(i - 1) : line[j] = "\""})

\* The commas outside quotes: those with an even number of quotes before them.
FieldBreaks(line) ==
    {i \in 1..Len(line) : line[i] = "," /\ QuotesBefore(line, i) % 2 = 0}

BreakAt(line, k) ==
    IF k = 0 THEN 0
    ELSE IF k > Cardinality(FieldBreaks(line)) THEN Len(line) + 1
    ELSE CHOOSE i \in FieldBreaks(line) :
            Cardinality({j \in FieldBreaks(line) : j < i}) = k - 1

\* The fields a quote-aware tokenizer yields: the text between consecutive
\* commas outside quotes, the quote characters dropped, trimmed.
QuoteAwareFields(line) ==
    [k \in 1..(Cardinality(FieldBreaks(line)) + 1) |->
        Trim(SelectSeq(SubSeq(line, BreakAt(line, k - 1) + 1, BreakAt(line, k) - 1),
                       NotQuote))]

QuotedRowCases ==
    { [feed   |-> FeedOf(<<QuotedRow(name, vl, src)>>),
       record |-> [name |-> name, severity |-> "critical",
                   affectedVersions |-> vl, sources |-> <<src>>]] :
        name \in Tokens \cup {ExampleName},
        vl \in VersionLists \cup {ExampleVersions},
        src \in Tokens \cup {ExampleSource} }

\* C6: parseCSVLine yields, for every line, the trimmed fields between the
\* commas outside quotes; and a data row name,"v1,...,vk",s (non-empty tokens
\* without quotes, commas, line breaks or surrounding whitespace) parses to
\* the single record {name, [v1..vk], [s]}.
C6_QuoteAwareRows ==
    /\ \A line \in Range(Split(csvContent, "\n")) :
          parseCSVLine(line) = QuoteAwareFields(line)
    /\ pc # "parse" =>
          \A c \in QuotedRowCases : csvContent = c.feed => packages = <<c.record>>

\* The spec's example row has been parsed.
C6_Witness ==
    /\ pc = "load"
    /\ csvContent = ExampleFeed
    /\ packages = << [name |-> ExampleName, severity |-> "critical",
                      affectedVersions |-> ExampleVersions,
                      sources |-> <<ExampleSource>>] >>

\* ---- C2
\* A property that is there: neither missing nor null.
Present(j) == j.t \notin {"undefined", "null"}

\* C2: when a previous database was loaded, every curated field it holds is
\* carried into the built database verbatim.
C2_CuratedFieldsVerbatim ==
    (Built /\ file.state = "json" /\ existing.t = "object") =>
        /\ Present(existing.attackInfo) => database.attackInfo = existing.attackInfo
        /\ Present(existing.indicators) => database.indicators = existing.indicators
        /\ Present(existing.acknowledgements) =>
              database.acknowledgements = existing.acknowledgements

\* ---- C3
SuccessLine == "Database updated successfully!"

IsRedirect(r) == r.status \in {301, 302}

FatalStatus == responses # <<>> /\ Last(responses).status \notin {200, 301, 302}

\* C3: a fetch that ends in a status other than 200/301/302, or in a
\* connection-level failure, rejects with that status (or the cause); the run
\* writes nothing, reports no success and exits with status 1.
C3_FetchFailureIsFatal ==
    /\ FatalStatus =>
          /\ err = [kind |-> "http", status |-> Last(responses).status]
          /\ pc \in {"rejected", "exit"}
    /\ (FatalStatus \/ err.kind \in {"http", "cause"}) =>
          /\ pc \in {"rejected", "exit"}
          /\ written = <<>>
          /\ SuccessLine \notin Range(out)
          /\ exitCode \in {-1, 1}
          /\ pc = "exit" <=> exitCode = 1

\* A 404 at the end of a redirect has ended the run with exit status 1.
C3_Witness ==
    /\ pc = "exit"
    /\ exitCode = 1
    /\ Len(responses) = 2
    /\ Last(responses).status = 404
    /\ err.status = 404
    /\ written = <<>>

\* ---- C4
\* C4: every 301/302 response is followed by exactly one request, to its
\* Location; a chain that ends in a complete 200 resolves with that body,
\* and one that ends in another status rejects with that status.
C4_RedirectsFollowed ==
    /\ requested[1] = CONSOLIDATED_IOC_URL
    /\ Len(requested) = 1 + Cardinality({i \in 1..Len(responses) : IsRedirect(responses[i])})
    /\ \A i \in 1..Len(responses) :
          IsRedirect(responses[i]) =>
              /\ i + 1 <= Len(requested)
              /\ requested[i + 1] = responses[i].location
              /\ \A j \in 1..i : IsRedirect(responses[j])
    /\ (responses # <<>> /\ Last(responses).status = 200 /\ Last(responses).ended) =>
          /\ csvContent = Last(responses).body
          /\ pc # "fetch"
          /\ err.kind \notin {"http", "cause"}
    /\ FatalStatus => err = [kind |-> "http", status |-> Last(responses).status]
    /\ pc \notin {"fetch", "rejected", "exit"} =>
          /\ responses # <<>>
          /\ Last(responses).status = 200
          /\ csvContent = Last(responses).body

\* A 302 and then a 301 were followed to a 200 whose body is the result.
C4_Witness ==
    /\ pc = "parse"
    /\ Len(responses) = 3
    /\ responses[1].status = 302
    /\ responses[2].status = 301
    /\ responses[1].location # responses[2].location
    /\ Len(requested) = 3
    /\ csvContent = Last(responses).body
    /\ csvContent # <<>>

\* ---- C5
\* C5: a previous file that is missing, unreadable or not JSON loads as null
\* without failing the run, and the database built has the default version,
\* the default attackInfo and empty indicators and acknowledgements.
C5_AbsentFileSeedsDefaults ==
    file.state # "json" =>
        /\ pc \in {"count", "build", "write", "summary", "compare", "resolved"} =>
              existing.t = "null"
        /\ Built =>
              /\ database.version = JStr("2.1.0")
              /\ database.attackInfo.t = "object"
              /\ <<"name", "Shai-Hulud 2.0">> \in Range(database.attackInfo.f)
              /\ <<"alias", "The Second Coming">> \in Range(database.attackInfo.f)
              /\ database.indicators = JObj(<<>>)
              /\ database.acknowledgements = JArr(<<>>)
        /\ err.kind \in {"none", "http", "cause", "write"}
        /\ (pc = "exit" /\ err.kind = "none") =>
              /\ exitCode = 0
              /\ Len(written) = 1
              /\ written[1] = database

\* A run over an unparsable previous file has written the seeded database.
C5_Witness ==
    /\ file.state = "garbage"
    /\ pc = "exit"
    /\ exitCode = 0
    /\ Len(written) = 1
    /\ written[1].version = JStr("2.1.0")
    /\ Len(written[1].packages) > 0

\* ---- C7
\* C7: the packages of the built database are the parser's records of the
\* current feed, in order, each reduced to name, severity, affectedVersions.
C7_PackagesFromFeed ==
    Built =>
        LET parsed == parseConsolidatedCSV(csvContent)
        IN  /\ Len(database.packages) = Len(parsed)
            /\ \A i \in 1..Len(database.packages) :
                  /\ i <= Len(parsed)
                  /\ DOMAIN database.packages[i] = {"name", "severity", "affectedVersions"}
                  /\ database.packages[i].name = parsed[i].name
                  /\ database.packages[i].severity = parsed[i].severity
                  /\ database.packages[i].affectedVersions = parsed[i].affectedVersions
            /\ \A i \in 1..Len(written) : written[i].packages = database.packages

\* A feed with the same name twice was merged over a previous database that
\* had packages of its own.
C7_Witness ==
    /\ Len(written) = 1
    /\ Len(written[1].packages) = 2
    /\ written[1].packages[1].name = written[1].packages[2].name
    /\ file.state = "json"
    /\ file.value.packages = TypicalPackages

\* ---- C8
Counted == pc \in {"build", "write", "summary", "compare", "resolved"} \/ Built

\* Every source of every record, in feed order.
RECURSIVE AllSources(_)
AllSources(pkgs) ==
    IF pkgs = <<>> THEN <<>> ELSE Head(pkgs).sources \o AllSources(Tail(pkgs))

FirstOccurrence(src) ==
    LET all == AllSources(packages)
    IN  CHOOSE i \in 1..Len(all) : all[i] = src /\ \A j \in 1..(i - 1) : all[j] # src

\* C8: the report gives each observed source the number of records that
\* name it, in descending count order, ties in order of first occurrence.
C8_CountsPerRecord ==
    Counted =>
        /\ {report[i].source : i \in 1..Len(report)} = Range(AllSources(packages))
        /\ \A i \in 1..Len(report) :
              report[i].count =
                  Cardinality({k \in 1..Len(packages) :
                                  report[i].source \in Range(packages[k].sources)})
        /\ \A i, j \in 1..Len(report) :
              i < j =>
                  /\ report[i].count >= report[j].count
                  /\ report[i].count = report[j].count =>
                        FirstOccurrence(report[i].source) < FirstOccurrence(report[j].source)

\* ---- C9
\* C9: once the write has completed, the comparison with the previous
\* database raises nothing and the run ends with success.
C9_CompareNeverFails ==
    written # <<>> =>
        /\ err.kind = "none"
        /\ pc = "exit" => exitCode = 0

\* ---- C10
\* C10: at most one write, made only after the fetch, the parse, the load
\* and the build; success is reported only after the write, and a failed
\* write ends the run with exit status 1.
C10_SingleWriteLast ==
    /\ Len(written) <= 1
    /\ written # <<>> =>
          /\ responses # <<>>
          /\ Last(responses).status = 200
          /\ Last(responses).ended
          /\ csvContent = Last(responses).body
          /\ packages = parseConsolidatedCSV(csvContent)
          /\ existing = loadExistingDatabase(file)
          /\ Built
          /\ database = BuildDatabase(existing, packages, sourceCounts, database.lastUpdated)
          /\ written[1] = database
    /\ SuccessLine \in Range(out) => Len(written) = 1
    /\ exitCode = 0 => (Len(written) = 1 /\ SuccessLine \in Range(out))
    /\ err.kind = "write" =>
          /\ written = <<>>
          /\ SuccessLine \notin Range(out)
          /\ pc \in {"rejected", "exit"}
          /\ pc = "exit" => exitCode = 1

\* A run has ended with exit status 0 after its one write.
C10_Witness ==
    /\ pc = "exit"
    /\ exitCode = 0
    /\ Len(written) = 1
    /\ Len(responses) > 1
    /\ Len(written[1].packages) > 0

====
